---- MODULE Spec2Model ----
(***************************************************************************)
(* A model of the BABIES FreeSurfer statistics scripts:                    *)
(*   scripts/get_freesurfer_stats.py  the two collectors and the entry     *)
(*                                    point that dispatches to them        *)
(*   utils/io.py                      get_brainvol_df (wide -> long) and   *)
(*                                    get_aparc_all_hemisphere (merge)     *)
(* Strings are TLA+ strings (Len, SubSeq and \o act on them), a path is    *)
(* the sequence of its parts (pathlib's Path.parts), a table is a record   *)
(* of its column names and its sequence of rows.                           *)
(***************************************************************************)
EXTENDS Integers, Sequences, FiniteSets, TLC

VARIABLES
    \* ---- scripts/get_freesurfer_stats.py, one run ----
    entry,        \* how the run starts: "main", "run_aseg2stats", "get_aparcstats"
    session,      \* args.session / the session parameter
    metric,       \* args.metric
    hemisphere,   \* args.hemisphere / the hemisphere parameter
    fs,           \* the files under dpath, in the order a directory walk yields them
    files0,       \* the files of the scripts directory before the run
    files,        \* the files of the scripts directory: name -> content
    pc,           \* the position of the run
    tool,         \* the outcome of subprocess.run(command)
    stats_paths,  \* the list of matched paths
    idx,          \* the loop's position in stats_paths (files handled so far)
    dfs,          \* the per-file tables collected so far
    df_dataset,   \* the concatenated table
    fault,        \* the uncaught exception that ended the run, or "none"
    fn,           \* the collector that is running, or "none"
    \* ---- identifier extraction applied to one path ----
    ex_fn,        \* the collector whose extraction step is applied
    ex_parts,     \* the path's parts
    ex_res,       \* the outcome of the step
    \* ---- utils/io.py get_brainvol_df ----
    rs_pc, rs_zscore, rs_raw, rs_df, rs_long,
    \* ---- utils/io.py get_aparc_all_hemisphere ----
    hm_pc, hm_csv_lh, hm_csv_rh, df_lh, df_rh, df_hemis

vars == <<entry, session, metric, hemisphere, fs, files0, files, pc, tool,
          stats_paths, idx, dfs, df_dataset, fault, fn,
          ex_fn, ex_parts, ex_res,
          rs_pc, rs_zscore, rs_raw, rs_df, rs_long,
          hm_pc, hm_csv_lh, hm_csv_rh, df_lh, df_rh, df_hemis>>

collectVars == <<entry, session, metric, hemisphere, fs, files0, files, pc, tool,
                 stats_paths, idx, dfs, df_dataset, fault, fn>>
extractVars == <<ex_fn, ex_parts, ex_res>>
reshapeVars == <<rs_pc, rs_zscore, rs_raw, rs_df, rs_long>>
mergeVars   == <<hm_pc, hm_csv_lh, hm_csv_rh, df_lh, df_rh, df_hemis>>

-----------------------------------------------------------------------------
(* Bounds of the model.                                                    *)

\* the longest tail of a generated path segment, in characters
MaxTail == 2
\* the most parts of a path handed to the extraction step alone
MaxParts == 2
\* the most files under dpath
MaxFiles == 2
\* the most rows of the wide brain-volume table
MaxRows == 2
\* the largest cell value of the wide brain-volume table
MaxVal == 2
\* the most tokens a structure name is built of
MaxTok == 3
\* the most structure rows of a per-hemisphere table
MaxStructs == 1

-----------------------------------------------------------------------------
(* Python's str and list operations, as the code uses them.                *)

\* str.startswith(prefix)
StartsWith(s, p) == Len(s) >= Len(p) /\ SubSeq(s, 1, Len(p)) = p

\* str.find(sub, start) with 1-based positions; 0 when sub does not occur
FindFrom(s, p, from) ==
    LET hits == {i \in from..(Len(s) - Len(p) + 1) : SubSeq(s, i, i + Len(p) - 1) = p}
    IN  IF hits = {} THEN 0 ELSE CHOOSE i \in hits : \A j \in hits : i <= j

\* a mutant of PySplitMax1: rsplit, which cuts at the last separator
PySplitMax1Last(s, sep) ==
    LET hits == {i \in 1..Len(s) : SubSeq(s, i, i) = sep}
    IN  IF hits = {} THEN <<s>>
        ELSE LET k == CHOOSE i \in hits : \A j \in hits : j <= i
             IN  <<SubSeq(s, 1, k - 1), SubSeq(s, k + 1, Len(s))>>

\* str.split(sep, maxsplit=1): a list of one or two strings
PySplitMax1(s, sep) ==
    LET k == FindFrom(s, sep, 1)
    IN  IF k = 0 THEN <<s>>
        ELSE <<SubSeq(s, 1, k - 1), SubSeq(s, k + Len(sep), Len(s))>>

\* str.replace(old, ""): every non-overlapping occurrence, left to right
RECURSIVE PyReplaceFrom(_, _, _)
PyReplaceFrom(s, old, from) ==
    LET k == FindFrom(s, old, from)
    IN  IF k = 0 THEN SubSeq(s, from, Len(s))
        ELSE SubSeq(s, from, k - 1) \o PyReplaceFrom(s, old, k + Len(old))

\* the strings of at most n characters of alphabet a
RECURSIVE StringsUpTo(_, _)
StringsUpTo(a, n) ==
    IF n = 0 THEN {""}
    ELSE LET shorter == StringsUpTo(a, n - 1)
         IN  shorter \cup {s \o c : s \in shorter, c \in a}

\* the sequences of at most n elements of S, the empty one included
SeqsUpTo(S, n) == UNION {[1..k -> S] : k \in 0..n}

-----------------------------------------------------------------------------
(* The identifier-extraction step of the two collectors.                   *)

NoFault == "none"

\* [part for part in stat_path.parts if part.startswith("sub-")]
SubParts(parts) == SelectSeq(parts, LAMBDA part : StartsWith(part, "sub-"))

\* a mutant of ExactlyOne: the assertion only rejects an empty list
AtLeastOne(study_id) == Len(study_id) >= 1

\* assert len(study_id) == 1
ExactlyOne(study_id) == Len(study_id) = 1

\* the rest of the step, given the one-element list of sub- parts
StudyIdOfList(study_id) ==
    LET pieces == PySplitMax1(study_id[1], "_")
    IN  IF pieces = <<>> THEN [fault |-> "AssertionError", id |-> ""]
        ELSE IF ~StartsWith(pieces[1], "sub") THEN [fault |-> "AssertionError", id |-> ""]
        ELSE [fault |-> NoFault, id |-> pieces[1]]

\* a mutant of AsegStudyId: the segment is cut at its last underscore
AsegStudyIdRsplit(parts) ==
    LET study_id == SubParts(parts)
    IN  IF ~ExactlyOne(study_id) THEN [fault |-> "AssertionError", id |-> ""]
        ELSE [fault |-> NoFault, id |-> PySplitMax1Last(study_id[1], "_")[1]]

\* run_aseg2stats, the body of the loop up to the identifier
AsegStudyId(parts) ==
    LET study_id == SubParts(parts)
    IN  IF ~ExactlyOne(study_id) THEN [fault |-> "AssertionError", id |-> ""]
        ELSE StudyIdOfList(study_id)

\* get_aparcstats, the body of the loop up to the identifier
AparcStudyId(parts) ==
    LET study_id == SubParts(parts)
    IN  IF ~ExactlyOne(study_id) THEN [fault |-> "AssertionError", id |-> ""]
        ELSE StudyIdOfList(study_id)

\* the step of the named collector
StudyIdIn(collector, parts) ==
    IF collector = "run_aseg2stats" THEN AsegStudyId(parts) ELSE AparcStudyId(parts)

-----------------------------------------------------------------------------
(* The values the parts of the model hold while another part runs.         *)

Pending == [fault |-> "pending", id |-> ""]

IdleCollect ==
    /\ entry = "none" /\ session = "newborn" /\ metric = "aseg" /\ hemisphere = "lh"
    /\ fs = <<>> /\ files0 = {} /\ files = {} /\ pc = "idle" /\ tool = "pending"
    /\ stats_paths = <<>> /\ idx = 0 /\ dfs = <<>> /\ df_dataset = <<>>
    /\ fault = NoFault /\ fn = "none"

IdleExtract == ex_fn = "none" /\ ex_parts = <<>> /\ ex_res = Pending

IdleReshape ==
    /\ rs_pc = "idle" /\ rs_zscore = FALSE /\ rs_raw = <<>> /\ rs_df = <<>>
    /\ rs_long = <<>>

IdleMerge ==
    /\ hm_pc = "idle" /\ hm_csv_lh = <<>> /\ hm_csv_rh = <<>>
    /\ df_lh = <<>> /\ df_rh = <<>> /\ df_hemis = <<>>

-----------------------------------------------------------------------------
(* The extraction step applied to one path: any path, matched or not.      *)

Collectors == {"run_aseg2stats", "get_aparcstats"}

\* path segments: a prefix and a tail of digits and underscores
SegmentPrefixes == {"sub-", "sub", "ses-"}
Segments == {p \o t : p \in SegmentPrefixes, t \in StringsUpTo({"1", "_"}, MaxTail)}
ExtractPaths == SeqsUpTo(Segments, MaxParts)

InitExtract ==
    /\ ex_fn \in Collectors
    /\ ex_parts \in ExtractPaths
    /\ ex_res = Pending
    /\ IdleCollect /\ IdleReshape /\ IdleMerge

ExtractAseg ==
    /\ ex_fn = "run_aseg2stats" /\ ex_res = Pending
    /\ ex_res' = AsegStudyId(ex_parts)
    /\ UNCHANGED <<ex_fn, ex_parts>>
    /\ UNCHANGED <<collectVars, reshapeVars, mergeVars>>

ExtractAparc ==
    /\ ex_fn = "get_aparcstats" /\ ex_res = Pending
    /\ ex_res' = AparcStudyId(ex_parts)
    /\ UNCHANGED <<ex_fn, ex_parts>>
    /\ UNCHANGED <<collectVars, reshapeVars, mergeVars>>

NextExtract == ExtractAseg \/ ExtractAparc

SpecExtract == InitExtract /\ [][NextExtract]_vars

-----------------------------------------------------------------------------
(* Claims about the extraction step.                                       *)

\* the sub- parts of the path, by position
SubPositions(parts) == {i \in 1..Len(parts) : StartsWith(parts[i], "sub-")}

\* t is s cut at its first underscore (all of s when it has none)
IsCutAtFirstUnderscore(t, s) ==
    /\ StartsWith(s, t)
    /\ \A i \in 1..Len(t) : SubSeq(t, i, i) # "_"
    /\ Len(t) = Len(s) \/ SubSeq(s, Len(t) + 1, Len(t) + 1) = "_"

\* C2: for a path with exactly one part beginning with sub-, the extraction
\* step of either collector yields that part cut at its first underscore (the
\* whole part when it has none), and the result begins with sub-.
C2_ExtractsSubId ==
    (ex_res # Pending /\ Cardinality(SubPositions(ex_parts)) = 1) =>
        LET seg == ex_parts[CHOOSE i \in SubPositions(ex_parts) : TRUE]
        IN  /\ ex_res.fault = NoFault
            /\ IsCutAtFirstUnderscore(ex_res.id, seg)
            /\ StartsWith(ex_res.id, "sub-")

\* the one sub- part follows another part and carries a suffix, which is stripped
C2_Witness ==
    /\ ex_res # Pending /\ ex_fn = "run_aseg2stats"
    /\ ex_parts = <<"ses-1", "sub-1_">>
    /\ ex_res = [fault |-> NoFault, id |-> "sub-1"]

\* C3: for a path with zero or more than one part beginning with sub-, the
\* extraction step ends in an assertion failure and yields no identifier.
C3_FailsFast ==
    (ex_res # Pending /\ Cardinality(SubPositions(ex_parts)) # 1) =>
        ex_res = [fault |-> "AssertionError", id |-> ""]

\* two sub- parts: the step fails instead of taking the first
C3_Witness ==
    /\ ex_res # Pending /\ ex_fn = "get_aparcstats"
    /\ Cardinality(SubPositions(ex_parts)) = 2
    /\ ex_res.fault = "AssertionError"

-----------------------------------------------------------------------------
(* One run of scripts/get_freesurfer_stats.py.                             *)

Sessions == {"newborn", "sixmonth"}
Metrics == {"aseg", "aparc"}
Hemispheres == {"lh", "rh"}

\* the names the module defines with def
DefinedFunctions == {"run_aseg2stats", "get_aparcstats"}

\* the name the entry point calls for a metric
CalledFor(m) == IF m = "aseg" THEN "run_aseg2stats" ELSE "run_aparcstats2table"

\* ses_dir
SesDir(ses) == IF ses = "sixmonth" THEN "six_month" ELSE ses

\* PROJECT_PATH.parts
ProjectParts == <<"/", "Volumes", "HumphreysLab", "Daily_2", "BABIES", "MRI">>

\* dpath.parts
DPath(ses) ==
    ProjectParts \o <<SesDir(ses), "derivatives", "Nibabies_auto", "sourcedata", "freesurfer">>

\* the file name the collector's pattern ends with
StatsName(collector, hemi) ==
    IF collector = "run_aseg2stats" THEN "brainvol.stats" ELSE hemi \o ".aparc.stats"

\* rglob("sub-*/stats/<name>"): the last three parts of a path under dpath
GlobMatches(rel, name) ==
    /\ Len(rel) >= 3
    /\ StartsWith(rel[Len(rel) - 2], "sub-")
    /\ rel[Len(rel) - 1] = "stats"
    /\ rel[Len(rel)] = name

\* list(dpath.rglob(pattern)): the matching files, as full paths, in walk order
Rglob(ses, tree, name) ==
    LET hit == SelectSeq(tree, LAMBDA rel : GlobMatches(rel, name))
    IN  [i \in 1..Len(hit) |-> DPath(ses) \o hit[i]]

\* the collected table's file in the scripts directory
OutName(collector, ses, hemi) ==
    IF collector = "run_aseg2stats" THEN "brianvol_" \o ses \o ".csv"
    ELSE "aparc_" \o ses \o "_" \o hemi \o ".csv"

\* asegstats2table's --tablefile
ToolTableName(ses) == "aseg_" \o ses \o ".table.txt"

\* the file names of the scripts directory after name is written with content
WriteFile(dir, name, content) ==
    {f \in dir : f.name # name} \cup {[name |-> name, content |-> content]}

\* pd.read_csv(stat_path) with the study_id column added: one tagged table a file
Tagged(id, path) == [study_id |-> id, src |-> path]

\* a mutant of ConcatRaises: an empty list concatenates to an empty table
ConcatNeverRaises(tables) == FALSE

\* pd.concat(dfs, axis=0) raises ValueError on an empty list
ConcatRaises(tables) == tables = <<>>

\* the directories a stats file may sit in, below dpath
FsDirs == {<<"sub-1_ses-a">>, <<"sub-2_ses-a_run-1">>, <<"sub-1_ses-a", "sub-2">>, <<"anat">>}
FsNames == {"brainvol.stats", "lh.aparc.stats", "rh.aparc.stats"}
FsFiles == {d \o <<"stats", n>> : d \in FsDirs, n \in FsNames}

\* a table left in the scripts directory by an earlier run
Stale == <<Tagged("sub-0", <<"earlier run">>)>>

InitCollect ==
    /\ entry \in {"main"} \cup DefinedFunctions
    /\ session \in Sessions
    /\ metric \in Metrics
    /\ hemisphere \in Hemispheres
    /\ entry = "run_aseg2stats" => metric = "aseg" /\ hemisphere = "lh"
    /\ entry = "get_aparcstats" => metric = "aparc"
    /\ fs \in {t \in SeqsUpTo(FsFiles, MaxFiles) :
                 \A i, j \in 1..Len(t) : i # j => t[i] # t[j]}
    /\ files0 \in {{}} \cup {{[name |-> OutName(c, session, hemisphere), content |-> Stale]} :
                             c \in DefinedFunctions}
    /\ files = files0
    /\ pc = IF entry = "main" THEN "main"
            ELSE IF entry = "run_aseg2stats" THEN "tool" ELSE "glob"
    /\ fn = IF entry = "main" THEN "none" ELSE entry
    /\ tool = "pending"
    /\ stats_paths = <<>> /\ idx = 0 /\ dfs = <<>> /\ df_dataset = <<>>
    /\ fault = NoFault
    /\ IdleExtract /\ IdleReshape /\ IdleMerge

\* the run ends with an uncaught exception
Raise(exc) == pc' = "fault" /\ fault' = exc

\* __main__: the call of the collector for args.metric
Main ==
    /\ pc = "main"
    /\ IF CalledFor(metric) \in DefinedFunctions
       THEN /\ fn' = CalledFor(metric)
            /\ pc' = IF CalledFor(metric) = "run_aseg2stats" THEN "tool" ELSE "glob"
            /\ fault' = fault
       ELSE /\ Raise("NameError")
            /\ fn' = fn
    /\ UNCHANGED <<entry, session, metric, hemisphere, fs, files0, files, tool,
                   stats_paths, idx, dfs, df_dataset>>
    /\ UNCHANGED <<extractVars, reshapeVars, mergeVars>>

\* what subprocess.run(command) can end with: the tool's exit status, or no tool
ToolOutcomes == {"exit_zero", "exit_nonzero", "not_found"}

\* a mutant of RunRaises: check=True, which raises on a non-zero exit status too
RunRaisesChecked(outcome) == outcome # "exit_zero"

\* subprocess.run(command) raises when the executable cannot be started
RunRaises(outcome) == outcome = "not_found"

\* run_aseg2stats: subprocess.run(command), awaited
RunTool ==
    /\ pc = "tool" /\ fn = "run_aseg2stats"
    /\ \E outcome \in ToolOutcomes :
        /\ tool' = outcome
        /\ IF RunRaises(outcome)
           THEN Raise("FileNotFoundError") /\ files' = files
           ELSE /\ pc' = "glob" /\ fault' = fault
                /\ files' = IF outcome = "exit_zero"
                            THEN WriteFile(files, ToolTableName(session),
                                           <<Tagged("asegstats2table", <<>>)>>)
                            ELSE files
    /\ UNCHANGED <<entry, session, metric, hemisphere, fs, files0,
                   stats_paths, idx, dfs, df_dataset, fn>>
    /\ UNCHANGED <<extractVars, reshapeVars, mergeVars>>

\* stats_paths = list(dpath.rglob(...)); dfs = []
Glob ==
    /\ pc = "glob"
    /\ stats_paths' = Rglob(session, fs, StatsName(fn, hemisphere))
    /\ idx' = 0 /\ dfs' = <<>>
    /\ pc' = "loop"
    /\ UNCHANGED <<entry, session, metric, hemisphere, fs, files0, files, tool,
                   df_dataset, fault, fn>>
    /\ UNCHANGED <<extractVars, reshapeVars, mergeVars>>

\* a mutant of LoopBody: a failure on a file writes what was collected so far
LoopBodySavesPartial ==
    /\ pc = "loop" /\ idx < Len(stats_paths)
    /\ LET stat_path == stats_paths[idx + 1]
           got == StudyIdIn(fn, stat_path)
       IN  \E readable \in BOOLEAN :
            IF got.fault # NoFault \/ ~readable
            THEN /\ Raise(IF got.fault # NoFault THEN got.fault ELSE "ParserError")
                 /\ files' = WriteFile(files, OutName(fn, session, hemisphere), dfs)
                 /\ UNCHANGED <<idx, dfs>>
            ELSE /\ dfs' = Append(dfs, Tagged(got.id, stat_path))
                 /\ idx' = idx + 1
                 /\ UNCHANGED <<pc, fault, files>>
    /\ UNCHANGED <<entry, session, metric, hemisphere, fs, files0, tool,
                   stats_paths, df_dataset, fn>>
    /\ UNCHANGED <<extractVars, reshapeVars, mergeVars>>

\* one pass of the for loop: the identifier, read_csv, the tag, the append
LoopBody ==
    /\ pc = "loop" /\ idx < Len(stats_paths)
    /\ LET stat_path == stats_paths[idx + 1]
           got == StudyIdIn(fn, stat_path)
       IN  IF got.fault # NoFault
           THEN Raise(got.fault) /\ UNCHANGED <<idx, dfs>>
           ELSE \E readable \in BOOLEAN :
                IF readable
                THEN /\ dfs' = Append(dfs, Tagged(got.id, stat_path))
                     /\ idx' = idx + 1
                     /\ UNCHANGED <<pc, fault>>
                ELSE Raise("ParserError") /\ UNCHANGED <<idx, dfs>>
    /\ UNCHANGED <<entry, session, metric, hemisphere, fs, files0, files, tool,
                   stats_paths, df_dataset, fn>>
    /\ UNCHANGED <<extractVars, reshapeVars, mergeVars>>

\* df_dataset = pd.concat(dfs, axis=0).set_index("study_id")
Concat ==
    /\ pc = "loop" /\ idx = Len(stats_paths)
    /\ IF ConcatRaises(dfs)
       THEN Raise("ValueError") /\ df_dataset' = df_dataset
       ELSE df_dataset' = dfs /\ pc' = "write" /\ fault' = fault
    /\ UNCHANGED <<entry, session, metric, hemisphere, fs, files0, files, tool,
                   stats_paths, idx, dfs, fn>>
    /\ UNCHANGED <<extractVars, reshapeVars, mergeVars>>

\* df_dataset.to_csv(...); return
ToCsv ==
    /\ pc = "write"
    /\ files' = WriteFile(files, OutName(fn, session, hemisphere), df_dataset)
    /\ pc' = "done"
    /\ UNCHANGED <<entry, session, metric, hemisphere, fs, files0, tool,
                   stats_paths, idx, dfs, df_dataset, fault, fn>>
    /\ UNCHANGED <<extractVars, reshapeVars, mergeVars>>

NextCollect == Main \/ RunTool \/ Glob \/ LoopBody \/ Concat \/ ToCsv

SpecCollect == InitCollect /\ [][NextCollect]_vars

-----------------------------------------------------------------------------
(* Claims about a run of the collectors.                                   *)

\* the search has been made
Discovered ==
    \/ pc \in {"loop", "write", "done"}
    \/ pc = "fault" /\ fault \in {"AssertionError", "ParserError", "ValueError"}

\* the content of the named file of a directory: a set of at most one table
ContentOf(dir, name) == {f.content : f \in {g \in dir : g.name = name}}

\* the collector the metric selects
CollectorOf(m) == IF m = "aseg" THEN "run_aseg2stats" ELSE "get_aparcstats"

\* C4 as stated: when the search matches no file the collector ends normally,
\* having written an empty table, and does not end in a fault.
C4_EmptyMatchWritesEmptyTable ==
    (Discovered /\ stats_paths = <<>> /\ pc # "loop") =>
        /\ pc \in {"write", "done"}
        /\ pc = "done" => ContentOf(files, OutName(fn, session, hemisphere)) = {<<>>}

\* C4 amended: when the search matches no file the collector ends in an
\* uncaught ValueError (pd.concat of an empty list) and the collected table's
\* file is left as it was: no empty table is written.
C4_EmptyMatchRaises ==
    (Discovered /\ stats_paths = <<>> /\ pc # "loop") =>
        /\ pc = "fault" /\ fault = "ValueError"
        /\ ContentOf(files, OutName(fn, session, hemisphere))
             = ContentOf(files0, OutName(fn, session, hemisphere))

\* files exist under dpath, none matches the pattern, and the run has ended
C4_Witness ==
    /\ fn = "get_aparcstats" /\ fs # <<>> /\ Discovered /\ stats_paths = <<>>
    /\ pc = "fault" /\ fault = "ValueError"

\* C5 as stated: whatever subprocess.run ends with, the volumetric collector
\* goes on to the search.
C5_AnyToolOutcomeIgnored ==
    (fn = "run_aseg2stats" /\ tool # "pending") => (pc = "glob" \/ Discovered)

\* C5 amended: the tool is run and awaited before the search; its exit status
\* is ignored, so after either status the run goes on to the search; when the
\* tool cannot be started the run ends in an uncaught FileNotFoundError before
\* the search, with nothing collected and nothing written.
C5_ToolAwaitedStatusIgnored ==
    fn = "run_aseg2stats" =>
        /\ (pc = "glob" \/ Discovered) => tool \in {"exit_zero", "exit_nonzero"}
        /\ tool \in {"exit_zero", "exit_nonzero"} => (pc = "glob" \/ Discovered)
        /\ tool = "not_found" =>
              /\ pc = "fault" /\ fault = "FileNotFoundError"
              /\ stats_paths = <<>> /\ dfs = <<>> /\ files = files0

\* the tool failed with a non-zero status and the collected table was written
C5_Witness ==
    /\ fn = "run_aseg2stats" /\ tool = "exit_nonzero" /\ pc = "done"
    /\ df_dataset # <<>>
    /\ ContentOf(files, OutName(fn, session, hemisphere)) = {df_dataset}

\* C6: once the entry point has dispatched, the collector of the selected
\* metric is running (or has run), and the run has not ended in a NameError.
C6_MainRunsSelectedCollector ==
    (entry = "main" /\ pc # "main") =>
        /\ fn = CollectorOf(metric)
        /\ fault # "NameError"

\* the collected table's file holds one tagged table for every matched file,
\* in order, each tagged with the identifier of its path
IsWholeTable(table) ==
    /\ Len(table) = Len(stats_paths)
    /\ \A i \in 1..Len(table) :
          /\ table[i].src = stats_paths[i]
          /\ \E k \in 1..Len(table[i].src) :
                /\ StartsWith(table[i].src[k], "sub-")
                /\ IsCutAtFirstUnderscore(table[i].study_id, table[i].src[k])
    /\ stats_paths = Rglob(session, fs, StatsName(fn, hemisphere))
    /\ table # <<>>

\* C10: the collected table's file is written only at the end of a run in
\* which every matched file passed validation and was loaded; until then, and
\* in a run that ends in a fault, every .csv file of the scripts directory is
\* as it was before the run, and what is written is never a partial table.
C10_AllOrNothing ==
    LET csv(dir) == {f \in dir : f.name # ToolTableName(session)}
    IN  /\ pc # "done" => csv(files) = csv(files0)
        /\ pc = "done" =>
              /\ \A f \in csv(files) :
                    f.name # OutName(fn, session, hemisphere) => f \in files0
              /\ \E table \in ContentOf(files, OutName(fn, session, hemisphere)) :
                    IsWholeTable(table)

\* the second file fails after the first was loaded; the earlier table stands
C10_Witness ==
    /\ pc = "fault" /\ idx = 1 /\ Len(dfs) = 1 /\ Len(stats_paths) = 2
    /\ ContentOf(files, OutName(fn, session, hemisphere)) = {Stale}

-----------------------------------------------------------------------------
(* pandas tables.  A frame is [cols, rows]: the column names in order and  *)
(* the rows in order, each row a function from column name to cell.        *)

\* the elements of a sequence
Range(q) == {q[i] : i \in 1..Len(q)}

\* algos.unique: the first occurrence of each element, in order
RECURSIVE Unique(_)
Unique(q) ==
    IF q = <<>> THEN <<>>
    ELSE LET front == Unique(SubSeq(q, 1, Len(q) - 1))
             last == q[Len(q)]
         IN  IF last \in Range(front) THEN front ELSE Append(front, last)

\* a mutant of ValueColumns: the id columns are not taken out of the frame
ValueColumnsKeepIds(kept, id_vars) == kept

\* melt: frame.pop(col) for col in id_vars leaves the value columns
ValueColumns(kept, id_vars) == SelectSeq(kept, LAMBDA c : c \notin Range(id_vars))

\* a mutant of LongCell: the long rows go subject by subject
LongCellBySubject(k, n, m) == [i |-> ((k - 1) \div m) + 1, j |-> ((k - 1) % m) + 1]

\* melt: the wide row i and value column j that long row k comes from, for n
\* wide rows and m value columns (np.tile of the ids, the columns one after
\* another, each column name repeated n times)
LongCell(k, n, m) == [i |-> ((k - 1) % n) + 1, j |-> ((k - 1) \div n) + 1]

\* DataFrame.melt(id_vars, value_vars, var_name, value_name): the long rows
PdMelt(frame, id_vars, value_vars, var_name, value_name) ==
    LET kept == Unique(id_vars \o value_vars)
        vcols == ValueColumns(kept, id_vars)
        n == Len(frame.rows)
        m == Len(vcols)
    IN  [k \in 1..(n * m) |->
           LET at == LongCell(k, n, m)
               wide == frame.rows[at.i]
           IN  [c \in Range(id_vars) \cup {var_name, value_name} |->
                  IF c = var_name THEN vcols[at.j]
                  ELSE IF c = value_name THEN wide[vcols[at.j]]
                  ELSE wide[c]]]

\* str.split(sep): every piece
RECURSIVE PySplit(_, _)
PySplit(s, sep) ==
    LET k == FindFrom(s, sep, 1)
    IN  IF k = 0 THEN <<s>>
        ELSE <<SubSeq(s, 1, k - 1)>> \o PySplit(SubSeq(s, k + Len(sep), Len(s)), sep)

-----------------------------------------------------------------------------
(* utils/io.py get_brainvol_df.                                            *)

\* brain_cols
brain_cols ==
    <<"BrainSegVolNotVent", "SubCortGrayVol", "CortexVol", "TotalGrayVol",
      "CerebralWhiteMatterVol">>

\* id_col
id_col == <<"study_id">>

\* use_cols
use_cols == id_col \o brain_cols

\* the columns of the asegstats2table file: the key, the five, and one more
RawCols == <<"Measure:volume">> \o brain_cols \o <<"BrainSegVol">>

\* a number read from the file
Num(v) == [kind |-> "raw", n |-> v, d |-> 1]

\* numpy's nan
NaN == [kind |-> "nan", n |-> 0, d |-> 0]

RECURSIVE Gcd(_, _)
Gcd(a, b) == IF b = 0 THEN a ELSE Gcd(b, a % b)

RECURSIVE SumOver(_, _)
SumOver(q, k) == IF k = 0 THEN 0 ELSE q[k] + SumOver(q, k - 1)

\* scipy.stats.zscore of a column (ddof=0): for x in column q of n numbers
\* with sum S and sum of squares Q, z = (n x - S) / sqrt(n Q - S^2), held
\* exactly as the sign of z and the fraction z^2 in lowest terms; 0/0 is nan
ZScoreOf(q) ==
    LET n == Len(q)
        S == SumOver(q, n)
        Q == SumOver([i \in 1..n |-> q[i] * q[i]], n)
        var == n * Q - S * S
    IN  [i \in 1..n |->
           LET a == n * q[i] - S
               g == Gcd(a * a, var)
           IN  IF var = 0 THEN NaN
               ELSE [kind |-> "z",
                     n |-> (IF a < 0 THEN -1 ELSE 1) * ((a * a) \div g),
                     d |-> var \div g]]

\* df[brain_cols] = df[brain_cols].apply(stats.zscore)
Standardized(frame) ==
    [cols |-> frame.cols,
     rows |-> [i \in 1..Len(frame.rows) |->
                 [c \in DOMAIN frame.rows[i] |->
                    IF c \in Range(brain_cols)
                    THEN ZScoreOf([r \in 1..Len(frame.rows) |-> frame.rows[r][c].n])[i]
                    ELSE frame.rows[i][c]]]]

\* read_csv, the rename of Measure:volume to study_id, and the cut of the
\* identifier at its first underscore
Renamed(frame) ==
    [cols |-> [k \in 1..Len(frame.cols) |->
                 IF frame.cols[k] = "Measure:volume" THEN "study_id" ELSE frame.cols[k]],
     rows |-> [i \in 1..Len(frame.rows) |->
                 [c \in (DOMAIN frame.rows[i] \ {"Measure:volume"}) \cup {"study_id"} |->
                    IF c = "study_id"
                    THEN PySplit(frame.rows[i]["Measure:volume"], "_")[1]
                    ELSE frame.rows[i][c]]]]

\* the identifiers of the file's first column
RawIds == {"sub-1_ses-a", "sub-2_ses-a", "sub-1"}

\* the rows of the file: every cell 1, but for at most one cell of the row
RawRows ==
    {[c \in Range(RawCols) |->
        IF c = "Measure:volume" THEN id
        ELSE IF c = hot THEN Num(v) ELSE Num(1)] :
        id \in RawIds, hot \in Range(RawCols) \ {"Measure:volume"}, v \in 1..MaxVal}

InitReshape ==
    /\ rs_pc = "read"
    /\ rs_zscore \in BOOLEAN
    /\ rs_raw \in {[cols |-> RawCols, rows |-> rows] : rows \in SeqsUpTo(RawRows, MaxRows)}
    /\ rs_df = <<>> /\ rs_long = <<>>
    /\ IdleCollect /\ IdleExtract /\ IdleMerge

\* df = pd.read_csv(fname, sep="\t"); the rename; the cut of study_id
ReadBrainvol ==
    /\ rs_pc = "read"
    /\ rs_df' = Renamed(rs_raw)
    /\ rs_pc' = IF rs_zscore THEN "zscore" ELSE "melt"
    /\ UNCHANGED <<rs_zscore, rs_raw, rs_long>>
    /\ UNCHANGED <<collectVars, extractVars, mergeVars>>

\* if zscore: df[brain_cols] = df[brain_cols].apply(stats.zscore)
ZScore ==
    /\ rs_pc = "zscore"
    /\ rs_df' = Standardized(rs_df)
    /\ rs_pc' = "melt"
    /\ UNCHANGED <<rs_zscore, rs_raw, rs_long>>
    /\ UNCHANGED <<collectVars, extractVars, mergeVars>>

\* df_long = df[use_cols].melt(...); return df_long.set_index("study_id")
\* (set_index moves study_id to the index: the rows and their order stay)
MeltBrainvol ==
    /\ rs_pc = "melt"
    /\ rs_long' = PdMelt([cols |-> use_cols, rows |-> rs_df.rows],
                         <<"study_id">>, use_cols, "region", "volume")
    /\ rs_pc' = "done"
    /\ UNCHANGED <<rs_zscore, rs_raw, rs_df>>
    /\ UNCHANGED <<collectVars, extractVars, mergeVars>>

NextReshape == ReadBrainvol \/ ZScore \/ MeltBrainvol

SpecReshape == InitReshape /\ [][NextReshape]_vars

-----------------------------------------------------------------------------
(* Claims about get_brainvol_df.                                           *)

\* the (study_id, region, volume) triple of a long row
Triple(r) == <<r["study_id"], r["region"], r["volume"]>>

\* C1: the long table is a relabeling of the five value columns of the wide
\* table that is melted (the file's table, standardized when zscore is set):
\* every region is one of the five columns (never study_id), there are five
\* long rows a wide row, and the set of (study_id, region, volume) rows is the
\* set of (study_id, column, cell) triples of the wide table; without
\* standardization the cells are the cells of the file.
C1_ReshapeIsRelabeling ==
    rs_pc = "done" =>
        /\ \A k \in 1..Len(rs_long) : rs_long[k]["region"] \in Range(brain_cols)
        /\ Len(rs_long) = Len(brain_cols) * Len(rs_df.rows)
        /\ {Triple(rs_long[k]) : k \in 1..Len(rs_long)}
             = {<<rs_df.rows[i]["study_id"], c, rs_df.rows[i][c]>> :
                    i \in 1..Len(rs_df.rows), c \in Range(brain_cols)}
        /\ ~rs_zscore =>
              {Triple(rs_long[k]) : k \in 1..Len(rs_long)}
                = {<<PySplitMax1(rs_raw.rows[i]["Measure:volume"], "_")[1], c,
                     rs_raw.rows[i][c]>> :
                       i \in 1..Len(rs_raw.rows), c \in Range(brain_cols)}

\* two subjects that differ in a value column have been reshaped
C1_Witness ==
    /\ rs_pc = "done" /\ ~rs_zscore /\ Len(rs_raw.rows) = 2
    /\ rs_raw.rows[1]["Measure:volume"] = "sub-1_ses-a"
    /\ rs_raw.rows[2]["Measure:volume"] = "sub-2_ses-a"
    /\ rs_raw.rows[1]["CortexVol"] # rs_raw.rows[2]["CortexVol"]
    /\ Len(rs_long) = 10

\* C9 as stated: without standardization the long rows go subject by subject:
\* for each wide row in order, one long row a value column in column order.
C9_SubjectMajorOrder ==
    (rs_pc = "done" /\ ~rs_zscore) =>
        \A k \in 1..Len(rs_long) :
            LET i == ((k - 1) \div Len(brain_cols)) + 1
                j == ((k - 1) % Len(brain_cols)) + 1
            IN  Triple(rs_long[k])
                  = <<rs_df.rows[i]["study_id"], brain_cols[j], rs_df.rows[i][brain_cols[j]]>>

\* C9 amended: without standardization the long rows go column by column: for
\* each value column in column order, one long row a wide row in wide-table
\* order.
C9_ColumnMajorOrder ==
    (rs_pc = "done" /\ ~rs_zscore) =>
        /\ Len(rs_long) = Len(brain_cols) * Len(rs_raw.rows)
        /\ \A k \in 1..Len(rs_long) :
            LET n == Len(rs_raw.rows)
                i == ((k - 1) % n) + 1
                j == ((k - 1) \div n) + 1
            IN  Triple(rs_long[k])
                  = <<PySplitMax1(rs_raw.rows[i]["Measure:volume"], "_")[1],
                      brain_cols[j], rs_raw.rows[i][brain_cols[j]]>>

\* two subjects: the second long row is the second subject's first column
C9_Witness ==
    /\ rs_pc = "done" /\ ~rs_zscore /\ Len(rs_raw.rows) = 2
    /\ Triple(rs_long[1]) = <<"sub-1", "BrainSegVolNotVent", Num(2)>>
    /\ Triple(rs_long[2]) = <<"sub-2", "BrainSegVolNotVent", Num(1)>>
    /\ Triple(rs_long[3])[2] = "SubCortGrayVol"

-----------------------------------------------------------------------------
(* utils/io.py get_aparc_long_format and get_aparc_all_hemisphere.         *)

\* the columns of an aparc_{session}_{hemisphere}.csv file
AparcCols == <<"study_id", "StructName", "NumVert", "SurfArea">>

\* get_aparc_long_format: df.melt(id_vars=["study_id", "StructName"],
\* var_name="metric"), every other column a value column
AparcLongFormat(frame) ==
    PdMelt(frame, <<"study_id", "StructName">>,
           SelectSeq(frame.cols, LAMBDA c : c \notin {"study_id", "StructName"}),
           "metric", "value")

\* a mutant of StripTag: the names are left as they are
StripNothing(name, tag) == name

\* Series.str.replace(tag, "")
StripTag(name, tag) == PyReplaceFrom(name, tag, 1)

\* df["hemisphere"] = hemi; df["StructName"] = df["StructName"].str.replace(hemi + "-", "")
TagHemisphere(long, hemi) ==
    [k \in 1..Len(long) |->
        [c \in DOMAIN long[k] \cup {"hemisphere"} |->
            IF c = "hemisphere" THEN hemi
            ELSE IF c = "StructName" THEN StripTag(long[k][c], hemi \o "-")
            ELSE long[k][c]]]

\* structure names: a run of pieces, written for a hemisphere.  The pieces
\* are the hemisphere's own tag, the other hemisphere's tag, the tag's first
\* letter, and the tag's tail.
Pieces == {"own", "other", "letter", "tail"}

Other(hemi) == IF hemi = "lh" THEN "rh" ELSE "lh"

PieceText(piece, hemi) ==
    CASE piece = "own" -> hemi \o "-"
      [] piece = "other" -> Other(hemi) \o "-"
      [] piece = "letter" -> SubSeq(hemi, 1, 1)
      [] piece = "tail" -> "h-"

RECURSIVE NameText(_, _)
NameText(pieces, hemi) ==
    IF pieces = <<>> THEN ""
    ELSE PieceText(Head(pieces), hemi) \o NameText(Tail(pieces), hemi)

NamePieces == UNION {[1..k -> Pieces] : k \in 1..MaxTok}

\* the file of a hemisphere: one subject, one row a structure
AparcCsv(names, hemi) ==
    [cols |-> AparcCols,
     rows |-> [i \in 1..Len(names) |->
                 [c \in Range(AparcCols) |->
                    CASE c = "study_id" -> "sub-1"
                      [] c = "StructName" -> NameText(names[i], hemi)
                      [] c = "NumVert" -> "v" \o hemi
                      [] c = "SurfArea" -> "a" \o hemi]]]

\* the two files list the same structures, each written for its hemisphere
InitMerge ==
    /\ hm_pc = "lh"
    /\ \E names \in SeqsUpTo(NamePieces, MaxStructs) :
          /\ hm_csv_lh = AparcCsv(names, "lh")
          /\ hm_csv_rh = AparcCsv(names, "rh")
    /\ df_lh = <<>> /\ df_rh = <<>> /\ df_hemis = <<>>
    /\ IdleCollect /\ IdleExtract /\ IdleReshape

\* df_lh = get_aparc_long_format(fname_lh); the hemisphere column; the replace
LeftTable ==
    /\ hm_pc = "lh"
    /\ df_lh' = TagHemisphere(AparcLongFormat(hm_csv_lh), "lh")
    /\ hm_pc' = "rh"
    /\ UNCHANGED <<hm_csv_lh, hm_csv_rh, df_rh, df_hemis>>
    /\ UNCHANGED <<collectVars, extractVars, reshapeVars>>

\* df_rh = get_aparc_long_format(fname_rh); the hemisphere column; the replace
RightTable ==
    /\ hm_pc = "rh"
    /\ df_rh' = TagHemisphere(AparcLongFormat(hm_csv_rh), "rh")
    /\ hm_pc' = "concat"
    /\ UNCHANGED <<hm_csv_lh, hm_csv_rh, df_lh, df_hemis>>
    /\ UNCHANGED <<collectVars, extractVars, reshapeVars>>

\* df_hemis = pd.concat([df_lh, df_rh]); return df_hemis
ConcatHemis ==
    /\ hm_pc = "concat"
    /\ df_hemis' = df_lh \o df_rh
    /\ hm_pc' = "done"
    /\ UNCHANGED <<hm_csv_lh, hm_csv_rh, df_lh, df_rh>>
    /\ UNCHANGED <<collectVars, extractVars, reshapeVars>>

NextMerge == LeftTable \/ RightTable \/ ConcatHemis

SpecMerge == InitMerge /\ [][NextMerge]_vars

-----------------------------------------------------------------------------
(* Claims about get_aparc_all_hemisphere.                                  *)

\* the structure names of a file
NamesOf(frame) == {frame.rows[i]["StructName"] : i \in 1..Len(frame.rows)}

\* the name begins with a hemisphere tag
HasHemiPrefix(name) == StartsWith(name, "lh-") \/ StartsWith(name, "rh-")

\* every name of the left file begins with lh-, every name of the right with rh-
AllTagged ==
    /\ \A name \in NamesOf(hm_csv_lh) : StartsWith(name, "lh-")
    /\ \A name \in NamesOf(hm_csv_rh) : StartsWith(name, "rh-")

\* the name holds its hemisphere's tag once, in front, and what follows the
\* tag does not begin with the other hemisphere's tag
TaggedOnce(name, hemi) ==
    /\ StartsWith(name, hemi \o "-")
    /\ FindFrom(name, hemi \o "-", 2) = 0
    /\ ~StartsWith(SubSeq(name, 4, Len(name)), Other(hemi) \o "-")

\* C7 as stated: when every left name begins with lh- and every right name
\* with rh-, no name of the merged table begins with lh- or rh-.
C7_OutputFreeOfPrefixes ==
    (hm_pc = "done" /\ AllTagged) =>
        \A k \in 1..Len(df_hemis) : ~HasHemiPrefix(df_hemis[k]["StructName"])

\* C7 amended: when every name holds its own hemisphere's tag exactly once, in
\* front, and what follows the tag does not begin with the other hemisphere's
\* tag, no name of the merged table begins with lh- or rh-.
C7_TaggedOnceFreeOfPrefixes ==
    (/\ hm_pc = "done"
     /\ \A name \in NamesOf(hm_csv_lh) : TaggedOnce(name, "lh")
     /\ \A name \in NamesOf(hm_csv_rh) : TaggedOnce(name, "rh")) =>
        \A k \in 1..Len(df_hemis) : ~HasHemiPrefix(df_hemis[k]["StructName"])

\* a tagged name whose rest holds the other hemisphere's tag further in
C7_Witness ==
    /\ hm_pc = "done"
    /\ NamesOf(hm_csv_lh) = {"lh-lrh-"} /\ NamesOf(hm_csv_rh) = {"rh-rlh-"}
    /\ {df_hemis[k]["StructName"] : k \in 1..Len(df_hemis)} = {"lrh-", "rlh-"}
    /\ Len(df_hemis) = 4

\* the wide row that row k of a hemisphere's long table comes from
WideRowOf(frame, k) == frame.rows[((k - 1) % Len(frame.rows)) + 1]

\* the name with its leading tag cut off, if it begins with the tag
WithoutPrefix(name, tag) ==
    IF StartsWith(name, tag) THEN SubSeq(name, Len(tag) + 1, Len(name)) ELSE name

\* C8: in the merged table a name that does not begin with its table's tag
\* is the file's name unmodified, and a name that does has lost its leading
\* tag and nothing else.
C8_OnlyOwnPrefixStripped ==
    hm_pc = "done" =>
        /\ Len(df_hemis) = Len(df_lh) + Len(df_rh)
        /\ \A k \in 1..Len(df_lh) :
              df_hemis[k]["StructName"]
                = WithoutPrefix(WideRowOf(hm_csv_lh, k)["StructName"], "lh-")
        /\ \A k \in 1..Len(df_rh) :
              df_hemis[Len(df_lh) + k]["StructName"]
                = WithoutPrefix(WideRowOf(hm_csv_rh, k)["StructName"], "rh-")

====
